---- MODULE Spec2Model ----
(***************************************************************************)
(* Read-aloud playback pipeline of App.tsx (handlePlayMessage, playChunk,  *)
(* resetApp) together with the parts of the App component that decide when *)
(* the handler can run: the message list, the document upload and the      *)
(* `disabled` expression of the "Read Aloud" button.                       *)
(*                                                                         *)
(* JavaScript runs a handler to its next `await` without interruption, so  *)
(* one action is one such run: the synchronous prefix of a handler, or the *)
(* continuation after one awaited promise has settled.                     *)
(*                                                                         *)
(* A text is abstracted to the sequence of the lengths of its sentences    *)
(* (the matches of sentenceRegex on the cleaned text); <<>> is the text    *)
(* that is empty after cleaning.                                           *)
(*                                                                         *)
(* Only the requests that are still running are kept (in `requests`, in    *)
(* the order of their invocation); an invocation that ends is summarised   *)
(* in `done` for the state it ends in.                                     *)
(*                                                                         *)
(* The voice overlay of VoiceAgent.tsx (recognizer sessions, chat queries, *)
(* recovery timers) has variables of its own.  The pure functions, the PCM *)
(* decoders of playChunk and playPCMData and the text chunker of           *)
(* handlePlayMessage, are run on inputs drawn by the initial predicates of *)
(* SpecDecoder and SpecChunker; there a text is a sequence of runs of      *)
(* character classes, so that the sentence match is computed on it.        *)
(*                                                                         *)
(* The document statistics are kept by the document they describe: the    *)
(* one now selected ("current") or one that resetApp or a later            *)
(* handleFileSelect has replaced ("earlier").                              *)
(***************************************************************************)
EXTENDS Integers, Sequences, FiniteSets, TLC

\* ----------------------------------------------------------------- bounds
MaxReq == 2          \* handlePlayMessage invocations running at once
MaxNow == 1          \* largest reading of the clock
MaxMsgs == 2         \* model messages shown at once
MaxUploads == 1      \* handleFileSelect invocations running at once
MaxAnalyses == 2     \* pending metadata analyses when a file is selected

\* ------------------------------------------------------ program constants
ChunkLimit == 500    \* (currentChunk + sentence).length < 500
NULL == 0 - 1        \* JavaScript null (refs and state)
SystemMsgId == 0     \* the id 'system-1' of the greeting message

\* Sample texts: sentence lengths of the cleaned message content.
GreetingText == << 40, 26 >>
ReplyTexts == { << >>, << 400, 400 >> }

Ended == 0           \* currentSourceRef: a source of a request that is over
CtxOutcomes == {"throws", "running", "suspended"}

\* ------------------------------------------------------------- variables
VARIABLES
  now,               \* the latest reading of Date.now()
  processingState,   \* ProcessingState of the App
  extracting,        \* handleFileSelect invocations awaiting the extraction
  messages,          \* finished model-role messages: [id, text]
  playingMessageId, loadingMessageId, isPlaying,
  activeRequestRef, currentSourceRef, audioContextRef,
  requests,          \* the running handlePlayMessage invocations
  done,              \* summary of the invocation that ended in the last step
  stats,             \* whose analysis `stats` holds: "null", the "current"
                     \* document's or an "earlier" one's
  analyses,          \* pending analyzeDocumentMetadata calls, counted by
                     \* the document they read
  staleUploads       \* the handleFileSelect invocations among `extracting`
                     \* whose file has been replaced or reset since

\* the voice overlay (components/VoiceAgent.tsx)
VARIABLES
  isVoiceMode,          \* the overlay is mounted
  SpeechRecognition,    \* the browser has a speech recognition engine
  status,               \* 'listening' | 'processing' | ... | 'error'
  transcriptRef,        \* the latest final transcript
  recognitionRef,       \* position of the recognizer made last
  voiceAudioContextRef, \* state of the AudioContext of the overlay
  recognizers,          \* the recognizers between start() and `end`
  queries,              \* the running handleUserQuery invocations
  timers                \* time elapsed on each pending setTimeout

pipelineVars == << now, processingState, extracting, messages,
                   playingMessageId, loadingMessageId, isPlaying,
                   activeRequestRef, currentSourceRef, audioContextRef,
                   requests, done, stats, analyses, staleUploads >>

voiceVars == << isVoiceMode, SpeechRecognition, status, transcriptRef,
                recognitionRef, voiceAudioContextRef, recognizers, queries,
                timers >>

\* the pure functions of the pipeline, run on one input
VARIABLES
  subject,              \* the function that is run ("none": none of them)
  pcmData,              \* atob(base64PCM): the bytes of a base64PCM payload
  float32Data,          \* the samples made of them
  sampleRate,           \* the rate handed to createBuffer (0: none yet)
  source,               \* "none", "started", or "threw" (no buffer was made)
  cleanText,            \* a message text after the markers are removed
  processedChunks       \* the chunks made of it

pureVars == << subject, pcmData, float32Data, sampleRate, source,
               cleanText, processedChunks >>

vars == << now, processingState, extracting, messages,
           playingMessageId, loadingMessageId, isPlaying,
           activeRequestRef, currentSourceRef, audioContextRef,
           requests, done, stats, analyses, staleUploads,
           isVoiceMode, SpeechRecognition, status, transcriptRef,
           recognitionRef, voiceAudioContextRef, recognizers, queries,
           timers,
           subject, pcmData, float32Data, sampleRate, source, cleanText,
           processedChunks >>

docVars == << stats, analyses, staleUploads >>
appVars == << processingState, extracting, messages, docVars >>
statusVars == << playingMessageId, loadingMessageId, isPlaying >>

Idle == << NULL, NULL, FALSE >>

\* ------------------------------------------------------------ TextChunker
RECURSIVE SumLen(_)
SumLen(s) == IF s = << >> THEN 0 ELSE Head(s) + 1 + SumLen(Tail(s))

\* length of a chunk: every sentence is followed by one separator space
ChunkLen(chunk) == SumLen(chunk)

\* currentChunk.trim() is non-empty
NonBlank(chunk) == \E k \in DOMAIN chunk : chunk[k] > 0

\* cleanText.match(sentenceRegex) || [cleanText]
Sentences(text) == IF text = << >> THEN << 0 >> ELSE text

RECURSIVE Pack(_, _, _)
Pack(sentences, chunks, currentChunk) ==
  IF sentences = << >>
    THEN IF NonBlank(currentChunk) THEN Append(chunks, currentChunk) ELSE chunks
    ELSE LET sentence == Head(sentences) IN
         IF ChunkLen(currentChunk) + sentence < ChunkLimit
           THEN Pack(Tail(sentences), chunks, Append(currentChunk, sentence))
           ELSE Pack(Tail(sentences),
                     IF NonBlank(currentChunk) THEN Append(chunks, currentChunk)
                                               ELSE chunks,
                     << sentence >>)

ProcessedChunks(text) == Pack(Sentences(text), << >>, << >>)

\* ---------------------------------------------------------------- records
NoReq ==
  [ pc |-> "start", msgId |-> NULL, requestId |-> NULL, cPlaying |-> NULL,
    n |-> 0, i |-> 0, srcSt |-> "none",
    synth |-> {}, failed |-> {}, played |-> {},
    clean |-> FALSE, newer |-> FALSE,
    superseded |-> FALSE, stopped |-> FALSE ]

NoDone ==
  [ kind |-> "none", pc |-> "none", n |-> 0,
    synth |-> {}, failed |-> {}, played |-> {},
    result |-> "none", exit |-> Idle,
    clean |-> FALSE ]

\* ------------------------------------------------------------------ Init
\* the App after construction
\* no document has been selected
NoDocs ==
  /\ stats = "null"
  /\ analyses = [ current |-> 0, earlier |-> 0 ]
  /\ staleUploads = 0

\* the document is ready and its analysis is pending
OneDoc ==
  /\ stats = "null"
  /\ analyses = [ current |-> 1, earlier |-> 0 ]
  /\ staleUploads = 0

InitApp ==
  /\ now = 0
  /\ processingState = "IDLE"
  /\ extracting = 0
  /\ messages = {}
  /\ playingMessageId = NULL
  /\ loadingMessageId = NULL
  /\ isPlaying = FALSE
  /\ activeRequestRef = NULL
  /\ currentSourceRef = NULL
  /\ audioContextRef = "null"
  /\ requests = << >>
  /\ done = NoDone
  /\ NoDocs

\* isVoiceMode is false: there is no overlay
VoiceClosed ==
  /\ isVoiceMode = FALSE
  /\ SpeechRecognition = TRUE
  /\ status = "listening"
  /\ transcriptRef = << >>
  /\ recognitionRef = NULL
  /\ voiceAudioContextRef = "null"
  /\ recognizers = << >>
  /\ queries = << >>
  /\ timers = << >>

\* no pure function is run on its own
NoPure ==
  /\ subject = "none"
  /\ pcmData = << >>
  /\ float32Data = << >>
  /\ sampleRate = 0
  /\ source = "none"
  /\ cleanText = << >>
  /\ processedChunks = << >>

Init == InitApp /\ VoiceClosed /\ NoPure

\* --------------------------------------------------------------- helpers
SetStatus(st) ==
  /\ playingMessageId' = st[1]
  /\ loadingMessageId' = st[2]
  /\ isPlaying' = st[3]

\* the request is waiting for the context or for a chunk, or has a source
\* rendering
LoadingOrPlaying(q) ==
  \/ q.pc \in {"resume", "synth"}
  \/ q.pc = "play" /\ q.srcSt = "rendering"

\* a stop() after which the `ended` event of the source is never dispatched
StopCurrent_mute(reqs) ==
  [a \in DOMAIN reqs |->
     IF a = currentSourceRef /\ reqs[a].srcSt = "rendering"
       THEN [reqs[a] EXCEPT !.srcSt = "halted"] ELSE reqs[a]]

\* AudioBufferSourceNode.stop() on currentSourceRef.current (if any): the
\* source stops rendering and its `ended` event is queued
StopCurrent(reqs) ==
  [a \in DOMAIN reqs |->
     IF a = currentSourceRef /\ reqs[a].srcSt = "rendering"
       THEN [reqs[a] EXCEPT !.srcSt = "ended"] ELSE reqs[a]]

\* the requests whose latest source is rendering on the output device
Rendering == { r \in DOMAIN requests : requests[r].srcSt = "rendering" }

\* the `disabled` expression of the Read Aloud button of message id
ButtonDisabled(id) ==
  \/ (playingMessageId # NULL /\ playingMessageId # id)
  \/ loadingMessageId = id

\* `playingMessageId === msgId && isPlaying`: the click is a stop request
IsToggle(id) == playingMessageId = id /\ isPlaying

\* the same test reading the current state instead of the captured constant
StoppedViaUI_live(q, i) == playingMessageId # q.msgId /\ i > 0

\* `playingMessageId !== msgId && i > 0` inside the loop: playingMessageId
\* is the constant captured by the closure when the handler was invoked
StoppedViaUI(q, i) == q.cPlaying # q.msgId /\ i > 0

\* `activeRequestRef.current !== requestId`
Stale(q, active) == active # q.requestId

\* head of the for loop at index i: TRUE when the loop is left
LoopExits(q, i, active) ==
  \/ ~(i < q.n)
  \/ Stale(q, active)
  \/ StoppedViaUI(q, i)

\* the `finally` block: only the active request resets the status
FinallyResets(q, active) == active = q.requestId

\* what is remembered of an invocation that is over
Summary(q, kind, pcEnd, result, exit) ==
  [ kind |-> kind, pc |-> pcEnd, n |-> q.n,
    synth |-> q.synth, failed |-> q.failed, played |-> q.played,
    result |-> result, exit |-> exit, clean |-> q.clean ]

RemoveAt(reqs, r) ==
  SubSeq(reqs, 1, r - 1) \o SubSeq(reqs, r + 1, Len(reqs))

\* The invocation at position r (record q) is over: its promise settles
\* with `result` and the status is left at `exit`.
Finish(r, q, pcEnd, result, exit, reqs) ==
  /\ SetStatus(exit)
  /\ requests' = RemoveAt(reqs, r)
  /\ done' = Summary(q, "play", pcEnd, result, exit)
  /\ currentSourceRef' =
       IF currentSourceRef = r THEN Ended
       ELSE IF currentSourceRef > r THEN currentSourceRef - 1
       ELSE currentSourceRef

\* Run request r (record q) from the head of the loop at index i up to its
\* next await or to its end; `st` is the status written so far in this run
\* and `active` the value of activeRequestRef.
RunLoop(r, q, i, st, active, reqs) ==
  IF LoopExits(q, i, active)
    THEN Finish(r, q, "done", "fulfilled",
                IF FinallyResets(q, active) THEN Idle ELSE st, reqs)
    ELSE /\ SetStatus(st)
         /\ requests' = [reqs EXCEPT ![r] =
              [q EXCEPT !.pc = "synth", !.i = i, !.synth = @ \cup {i}]]
         /\ done' = NoDone
         /\ UNCHANGED currentSourceRef

\* message id has a request of its own that is current (its token is the
\* active one) and is fetching a chunk or rendering one
OwnLive(id) ==
  \E a \in DOMAIN requests :
     /\ requests[a].msgId = id
     /\ requests[a].requestId = activeRequestRef
     /\ LoadingOrPlaying(requests[a])

NewRequest(id, text, t) ==
  [ NoReq EXCEPT
      !.msgId = id, !.requestId = t,
      !.cPlaying = playingMessageId,
      !.n = Len(ProcessedChunks(text)),
      !.clean = (/\ << playingMessageId, loadingMessageId, isPlaying >> = Idle
                 /\ requests = << >>) ]

\* what a new invocation for message id means to the running requests
Mark(reqs, id, toggle) ==
  [a \in DOMAIN reqs |->
     [reqs[a] EXCEPT
        !.newer = TRUE, !.clean = FALSE,
        !.superseded = @ \/ (reqs[a].msgId # id /\ LoadingOrPlaying(reqs[a])),
        !.stopped = @ \/ (toggle /\ reqs[a].msgId = id)]]

\* ------------------------------------------------------------- the clock
\* Date.now(): a reading that is not below the latest one
Clock == now..MaxNow

\* ------------------------------------------------------ handlePlayMessage
\* Synchronous prefix, invoked by the click on an enabled Read Aloud button
\* of message m at time t.  ctx: outcome of obtaining the AudioContext
\* ("throws" when the device is unavailable, otherwise the state of the
\* context).
handlePlayMessage(m, ctx, t) ==
  LET id == m.id
      r == Len(requests) + 1
      q == NewRequest(id, m.text, t)
      st == << id, id, FALSE >>
  IN
  /\ ~isVoiceMode  \* the overlay covers the App
  /\ UNCHANGED << voiceVars, pureVars >>
  /\ processingState = "READY"
  /\ m \in messages
  /\ ~ButtonDisabled(id)
  /\ t \in Clock
  /\ now' = t
  /\ activeRequestRef' = t
  /\ UNCHANGED appVars
  /\ IF IsToggle(id)
       THEN \* toggle: stop this message
         /\ ctx = "running"
         /\ SetStatus(Idle)
         /\ requests' = StopCurrent(Mark(requests, id, TRUE))
         /\ done' = Summary(q, "toggle", "done", "fulfilled", Idle)
         /\ UNCHANGED << currentSourceRef, audioContextRef >>
       ELSE
         /\ Len(requests) < MaxReq
         /\ IF audioContextRef = "null"
              THEN ctx \in CtxOutcomes
              ELSE ctx = audioContextRef
         /\ LET reqs == Append(StopCurrent(Mark(requests, id, FALSE)), q) IN
            CASE ctx = "throws" ->
                   \* new AudioContextClass() throws outside the try block
                   /\ UNCHANGED audioContextRef
                   /\ Finish(r, q, "threw", "rejected", st, reqs)
              [] ctx = "suspended" ->
                   \* await audioContext.resume()
                   /\ audioContextRef' = ctx
                   /\ SetStatus(st)
                   /\ requests' = [reqs EXCEPT ![r].pc = "resume"]
                   /\ done' = NoDone
                   /\ UNCHANGED currentSourceRef
              [] ctx = "running" ->
                   /\ audioContextRef' = ctx
                   /\ RunLoop(r, q, 0, st, t, reqs)

\* audioContext.resume() settles
ResumeSettled(r, ok) ==
  /\ UNCHANGED << voiceVars, pureVars >>
  /\ requests[r].pc = "resume"
  /\ UNCHANGED << now, appVars, activeRequestRef >>
  /\ IF ok
       THEN /\ audioContextRef' = "running"
            /\ RunLoop(r, requests[r], 0,
                       << playingMessageId, loadingMessageId, isPlaying >>,
                       activeRequestRef, requests)
       ELSE \* rejection outside the try block: nothing is reset
            /\ UNCHANGED audioContextRef
            /\ Finish(r, requests[r], "threw", "rejected",
                      << playingMessageId, loadingMessageId, isPlaying >>,
                      requests)

\* a loop that asks again for a chunk that came back without audio
SynthResolved_retry(r, audio) ==
  /\ UNCHANGED << voiceVars, pureVars >>
  /\ requests[r].pc = "synth"
  /\ UNCHANGED << now, appVars, activeRequestRef, audioContextRef >>
  /\ LET q == requests[r]
         i == q.i
         st == << playingMessageId, loadingMessageId, isPlaying >>
     IN
     IF Stale(q, activeRequestRef)
       THEN Finish(r, q, "done", "fulfilled", st, requests)
       ELSE IF audio
         THEN
           /\ SetStatus(IF i = 0 THEN << playingMessageId, NULL, TRUE >> ELSE st)
           /\ currentSourceRef' = r
           /\ requests' = [requests EXCEPT ![r].pc = "play",
                             ![r].srcSt = "rendering",
                             ![r].played = @ \cup {i}]
           /\ done' = NoDone
         ELSE
           RunLoop(r, [q EXCEPT !.failed = @ \cup {i}], i, st,
                   activeRequestRef, requests)

\* generateSpeechFromText(chunk) resolves: audio = FALSE is `undefined`
\* (the call failed or the response carries no inline data)
SynthResolved(r, audio) ==
  /\ UNCHANGED << voiceVars, pureVars >>
  /\ requests[r].pc = "synth"
  /\ UNCHANGED << now, appVars, activeRequestRef, audioContextRef >>
  /\ LET q == requests[r]
         i == q.i
         st == << playingMessageId, loadingMessageId, isPlaying >>
     IN
     IF Stale(q, activeRequestRef)
       THEN \* return; finally leaves the status alone
         Finish(r, q, "done", "fulfilled", st, requests)
       ELSE IF audio
         THEN \* playChunk: createBufferSource, start
           /\ SetStatus(IF i = 0 THEN << playingMessageId, NULL, TRUE >> ELSE st)
           /\ currentSourceRef' = r
           /\ requests' = [requests EXCEPT ![r].pc = "play",
                             ![r].srcSt = "rendering",
                             ![r].played = @ \cup {i}]
           /\ done' = NoDone
         ELSE
           RunLoop(r, [q EXCEPT !.failed = @ \cup {i}], i + 1, st,
                   activeRequestRef, requests)

\* the device has rendered every sample of the source of request r
SourceEnded(r) ==
  /\ UNCHANGED << voiceVars, pureVars >>
  /\ requests[r].srcSt = "rendering"
  /\ requests' = [requests EXCEPT ![r].srcSt = "ended"]
  /\ done' = NoDone
  /\ UNCHANGED << now, appVars, statusVars, activeRequestRef,
                  currentSourceRef, audioContextRef >>

\* source.onended has fired and resolves the promise of playChunk
PlayResolved(r) ==
  /\ UNCHANGED << voiceVars, pureVars >>
  /\ requests[r].pc = "play"
  /\ requests[r].srcSt = "ended"
  /\ UNCHANGED << now, appVars, activeRequestRef, audioContextRef >>
  /\ RunLoop(r, requests[r], requests[r].i + 1,
             << playingMessageId, loadingMessageId, isPlaying >>,
             activeRequestRef, requests)

\* setFile(...) and setStats(null): the document there was, if any, is no
\* longer the current one, and neither is what is in flight for it
Supersede ==
  /\ stats' = "null"
  /\ analyses' = [ current |-> 0,
                   earlier |-> analyses.earlier + analyses.current ]
  /\ staleUploads' = extracting

\* --------------------------------------------------------------- resetApp
resetApp ==
  /\ ~isVoiceMode  \* the overlay covers the App
  /\ UNCHANGED << voiceVars, pureVars >>
  /\ messages' = {}
  /\ processingState' = "IDLE"
  /\ SetStatus(Idle)
  /\ requests' = StopCurrent(
       [a \in DOMAIN requests |-> [requests[a] EXCEPT !.clean = FALSE]])
  /\ done' = NoDone
  /\ Supersede
  /\ UNCHANGED << now, extracting, activeRequestRef, currentSourceRef,
                  audioContextRef >>

\* ------------------------------------------------------- handleFileSelect
handleFileSelect ==
  /\ ~isVoiceMode  \* the overlay covers the App
  /\ UNCHANGED << voiceVars, pureVars >>
  /\ processingState = "IDLE"
  /\ extracting < MaxUploads
  /\ analyses.current + analyses.earlier < MaxAnalyses
  /\ processingState' = "UPLOADING"
  /\ extracting' = extracting + 1
  /\ Supersede
  /\ done' = NoDone
  /\ UNCHANGED << now, messages, statusVars, activeRequestRef,
                  currentSourceRef, audioContextRef, requests >>

\* extractTextFromFile settles; on success the chat is initialised and the
\* greeting message 'system-1' replaces the message list
ExtractSettled(ok) ==
  /\ UNCHANGED << voiceVars, pureVars >>
  /\ extracting > 0
  /\ extracting' = extracting - 1
  /\ IF ok
       THEN /\ processingState' = "READY"
            /\ messages' = { [id |-> SystemMsgId, text |-> GreetingText] }
       ELSE /\ processingState' = "ERROR"
            /\ UNCHANGED messages
  /\ \E doc \in { "current", "earlier" } :
        \* the invocation that goes on is the latest one or an older one
        /\ doc = "current" => extracting > staleUploads
        /\ doc = "earlier" => staleUploads > 0
        /\ staleUploads' = IF doc = "earlier" THEN staleUploads - 1
                                              ELSE staleUploads
        /\ analyses' = IF ok THEN [analyses EXCEPT ![doc] = @ + 1]
                             ELSE analyses
  /\ UNCHANGED stats
  /\ done' = NoDone
  /\ UNCHANGED << now, statusVars, activeRequestRef, currentSourceRef,
                  audioContextRef, requests >>

\* analyzeDocumentMetadata(textContent) resolves (with the analysis or with
\* its "Analysis failed" object) and the `then` callback runs setStats(data)
MetadataSettled(doc) ==
  /\ analyses[doc] > 0
  /\ analyses' = [analyses EXCEPT ![doc] = @ - 1]
  /\ stats' = doc
  /\ done' = NoDone
  /\ UNCHANGED << voiceVars, pureVars, now, processingState, extracting,
                  messages, staleUploads, statusVars, activeRequestRef,
                  currentSourceRef, audioContextRef, requests >>

\* ------------------------------------------------------ handleSendMessage
\* The reply placeholder gets the id (Date.now() + 1); it shows no Read Aloud
\* button while it is streaming, so the handler is taken up to the end of
\* the stream, where the reply has its final content `text`.
handleSendMessage(text, t) ==
  /\ ~isVoiceMode  \* the overlay covers the App
  /\ UNCHANGED << voiceVars, pureVars >>
  /\ processingState = "READY"
  /\ Cardinality(messages) < MaxMsgs
  /\ t \in Clock
  /\ now' = t
  /\ messages' = messages \cup { [id |-> t + 1, text |-> text] }
  /\ done' = NoDone
  /\ UNCHANGED << processingState, extracting, docVars, statusVars,
                  activeRequestRef, currentSourceRef, audioContextRef,
                  requests >>

\* ============================================================ VoiceAgent
\* Bound: recognizers, handleUserQuery invocations and recovery timers the
\* overlay has at once (each "Tap to Speak" adds one)
MaxLoops == 2

\* setTimeout(() => startListening(), 3000): the delay in time units
RecoveryDelay == 3

\* transcripts are sequences of characters; " " is the white space
FinalTranscripts == { << >>, << " " >>, << "h", "i" >> }

\* String.prototype.trim()
RECURSIVE Trim(_)
Trim(text) ==
  IF text = << >> THEN << >>
  ELSE IF Head(text) = " " THEN Trim(Tail(text))
  ELSE IF text[Len(text)] = " " THEN Trim(SubSeq(text, 1, Len(text) - 1))
  ELSE text

\* `text && text.trim().length > 0`
HasSpeech(text) == text # << >> /\ Len(Trim(text)) > 0

\* errors the recognizer reports
SpeechErrors == { "no-speech", "not-allowed" }

\* how chat.sendMessage settles: rejected, or resolved with response.text
\* empty or not
ChatOutcomes == { "rejects", "empty", "text" }

\* a recognizer on which start() has just been called; `final` is the
\* final transcript its session has delivered and `error` the error it has
\* reported
NewRecognition == [ st |-> "starting", final |-> << >>, error |-> "none" ]

\* handleUserQuery up to its first await; `reply` is responseText
NewQuery == [ pc |-> "chat", reply |-> "none" ]

\* setStatus: React drops the update of a component that is unmounted
Shown(st) == IF isVoiceMode THEN st ELSE status

\* the recognizer at position r is gone: the reference follows the shift
Unref(ref, r) ==
  IF ref = r THEN Ended ELSE IF ref > r THEN ref - 1 ELSE ref

\* startListening() run with the recognizers recs, when the status written
\* so far in this run is st
StartListening(recs, st) ==
  IF SpeechRecognition
    THEN /\ recognizers' = Append(recs, NewRecognition)
         /\ recognitionRef' = Len(recs) + 1
         /\ status' = st
    ELSE /\ recognizers' = recs
         /\ UNCHANGED recognitionRef
         /\ status' = Shown("error")

\* recognitionRef.current.stop(): a recognizer that listens may still
\* deliver a result from the audio it has captured before it ends
StopListening(recs) ==
  [a \in DOMAIN recs |->
     IF a = recognitionRef /\ recs[a].st = "starting"
       THEN [recs[a] EXCEPT !.st = "ending"]
     ELSE IF a = recognitionRef /\ recs[a].st = "listening"
       THEN [recs[a] EXCEPT !.st = "stopping"]
     ELSE recs[a]]

\* what the overlay has in flight
Loops == Len(recognizers) + Len(queries) + Len(timers)

\* recognition.onstart
RecognitionStarted(r) ==
  /\ recognizers[r].st = "starting"
  /\ recognizers' = [recognizers EXCEPT ![r].st = "listening"]
  /\ status' = Shown("listening")
  /\ transcriptRef' = << >>
  /\ UNCHANGED << pipelineVars, pureVars, isVoiceMode, SpeechRecognition,
                  recognitionRef, voiceAudioContextRef, queries, timers >>

\* recognition.onresult with a final result (continuous = false: the
\* session ends after it)
RecognitionResult(r, text) ==
  /\ recognizers[r].st \in {"listening", "stopping"}
  /\ recognizers' = [recognizers EXCEPT ![r].st = "ending", ![r].final = text]
  /\ transcriptRef' = IF text # << >> THEN text ELSE transcriptRef
  /\ UNCHANGED << pipelineVars, pureVars, isVoiceMode, SpeechRecognition, status,
                  recognitionRef, voiceAudioContextRef, queries, timers >>

\* recognition.onerror: the session is over, nothing is written
RecognitionError(r, e) ==
  /\ recognizers[r].st \in {"starting", "listening"}
  /\ e = "no-speech" => recognizers[r].st = "listening"
  /\ recognizers' = [recognizers EXCEPT ![r].st = "ending", ![r].error = e]
  /\ UNCHANGED << pipelineVars, pureVars, isVoiceMode, SpeechRecognition, status,
                  transcriptRef, recognitionRef, voiceAudioContextRef,
                  queries, timers >>

\* recognition.onend: handleUserQuery(text) up to its first await, or
\* recognition.start() again
RecognitionEnded(r) ==
  /\ recognizers[r].st \in {"ending", "stopping"}
  /\ IF HasSpeech(transcriptRef)
       THEN /\ status' = Shown("processing")
            /\ queries' = Append(queries, NewQuery)
            /\ recognizers' = RemoveAt(recognizers, r)
            /\ recognitionRef' = Unref(recognitionRef, r)
       ELSE /\ recognizers' = [recognizers EXCEPT ![r] = NewRecognition]
            /\ UNCHANGED << status, queries, recognitionRef >>
  /\ UNCHANGED << pipelineVars, pureVars, isVoiceMode, SpeechRecognition,
                  transcriptRef, voiceAudioContextRef, timers >>

\* the "Stop Listening" button
stopListening ==
  /\ isVoiceMode
  /\ status = "listening"
  /\ recognizers' = StopListening(recognizers)
  /\ UNCHANGED << pipelineVars, pureVars, isVoiceMode, SpeechRecognition, status,
                  transcriptRef, recognitionRef, voiceAudioContextRef,
                  queries, timers >>

\* the "Tap to Speak" button
startListening ==
  /\ isVoiceMode
  /\ status # "listening"
  /\ Loops < MaxLoops
  /\ StartListening(recognizers, status)
  /\ UNCHANGED << pipelineVars, pureVars, isVoiceMode, SpeechRecognition,
                  transcriptRef, voiceAudioContextRef, queries, timers >>

\* chat.sendMessage settles; the catch block arms no timer
ChatSettled_stuck(k, reply) ==
  /\ queries[k].pc = "chat"
  /\ IF reply = "rejects"
       THEN \* catch: status 'error'
            /\ status' = Shown("error")
            /\ queries' = RemoveAt(queries, k)
            /\ UNCHANGED timers
       ELSE \* responseText = response.text || ""
            /\ status' = Shown("synthesizing")
            /\ queries' = [queries EXCEPT ![k].pc = "synth", ![k].reply = reply]
            /\ UNCHANGED timers
  /\ UNCHANGED << pipelineVars, pureVars, isVoiceMode, SpeechRecognition,
                  transcriptRef, recognitionRef, voiceAudioContextRef,
                  recognizers >>

\* chat.sendMessage settles
ChatSettled(k, reply) ==
  /\ queries[k].pc = "chat"
  /\ IF reply = "rejects"
       THEN \* catch: status 'error', setTimeout(startListening, 3000)
            /\ status' = Shown("error")
            /\ queries' = RemoveAt(queries, k)
            /\ timers' = Append(timers, 0)
       ELSE \* responseText = response.text || ""
            /\ status' = Shown("synthesizing")
            /\ queries' = [queries EXCEPT ![k].pc = "synth", ![k].reply = reply]
            /\ UNCHANGED timers
  /\ UNCHANGED << pipelineVars, pureVars, isVoiceMode, SpeechRecognition,
                  transcriptRef, recognitionRef, voiceAudioContextRef,
                  recognizers >>

\* generateSpeechFromText resolves; a missing audio is thrown to the catch
\* block
SpeechSettled_thrown(k, audio) ==
  /\ queries[k].pc = "synth"
  /\ IF audio /\ voiceAudioContextRef # "null"
       THEN \* playPCMData: source.start()
            /\ status' = Shown("speaking")
            /\ queries' = [queries EXCEPT ![k].pc = "play"]
            /\ UNCHANGED << recognizers, recognitionRef >>
            /\ UNCHANGED timers
       ELSE /\ queries' = RemoveAt(queries, k)
            /\ status' = Shown("error")
            /\ timers' = Append(timers, 0)
            /\ UNCHANGED << recognizers, recognitionRef >>
  /\ UNCHANGED << pipelineVars, pureVars, isVoiceMode, SpeechRecognition,
                  transcriptRef, voiceAudioContextRef >>

\* generateSpeechFromText resolves: audio = FALSE is `undefined`
SpeechSettled(k, audio) ==
  /\ queries[k].pc = "synth"
  /\ IF audio /\ voiceAudioContextRef # "null"
       THEN \* playPCMData: source.start()
            /\ status' = Shown("speaking")
            /\ queries' = [queries EXCEPT ![k].pc = "play"]
            /\ UNCHANGED << recognizers, recognitionRef >>
       ELSE /\ queries' = RemoveAt(queries, k)
            /\ StartListening(recognizers, status)
  /\ UNCHANGED << pipelineVars, pureVars, isVoiceMode, SpeechRecognition,
                  transcriptRef, voiceAudioContextRef, timers >>

\* the queries whose reply is rendered on the output device
Speaking ==
  { k \in DOMAIN queries :
      queries[k].pc = "play" /\ voiceAudioContextRef = "running" }

\* source.onended resolves the promise of playPCMData
PlaybackEnded(k) ==
  /\ k \in Speaking
  /\ queries' = RemoveAt(queries, k)
  /\ StartListening(recognizers, status)
  /\ UNCHANGED << pipelineVars, pureVars, isVoiceMode, SpeechRecognition,
                  transcriptRef, voiceAudioContextRef, timers >>

\* playPCMData rejects (the payload cannot be made into a buffer): the catch
\* block runs before the status 'speaking' is rendered
PlaybackRejected(k) ==
  /\ queries[k].pc = "synth"
  /\ voiceAudioContextRef # "null"
  /\ status' = Shown("error")
  /\ queries' = RemoveAt(queries, k)
  /\ timers' = Append(timers, 0)
  /\ UNCHANGED << pipelineVars, pureVars, isVoiceMode, SpeechRecognition,
                  transcriptRef, recognitionRef, voiceAudioContextRef,
                  recognizers >>

\* one unit of time passes on every pending timer
TimePasses ==
  /\ \E j \in DOMAIN timers : timers[j] < RecoveryDelay
  /\ timers' = [j \in DOMAIN timers |->
                  IF timers[j] < RecoveryDelay THEN timers[j] + 1
                  ELSE timers[j]]
  /\ UNCHANGED << pipelineVars, pureVars, isVoiceMode, SpeechRecognition, status,
                  transcriptRef, recognitionRef, voiceAudioContextRef,
                  recognizers, queries >>

\* the callback of setTimeout runs
TimerFired(j) ==
  /\ timers[j] = RecoveryDelay
  /\ timers' = RemoveAt(timers, j)
  /\ StartListening(recognizers, status)
  /\ UNCHANGED << pipelineVars, pureVars, isVoiceMode, SpeechRecognition,
                  transcriptRef, voiceAudioContextRef, queries >>

\* the close button: onClose, the overlay is unmounted and the cleanup of
\* the effect runs
closeOverlay ==
  /\ isVoiceMode
  /\ isVoiceMode' = FALSE
  /\ recognizers' = StopListening(recognizers)
  /\ voiceAudioContextRef' =
       IF voiceAudioContextRef = "null" THEN "null" ELSE "closed"
  /\ UNCHANGED << pipelineVars, pureVars, SpeechRecognition, status, transcriptRef,
                  recognitionRef, queries, timers >>

\* The overlay right after it was mounted over a ready document: the
\* effect has called startListening() and made the AudioContext.
InitVoice ==
  /\ now = 0
  /\ processingState = "READY"
  /\ extracting = 0
  /\ messages = { [id |-> SystemMsgId, text |-> GreetingText] }
  /\ playingMessageId = NULL
  /\ loadingMessageId = NULL
  /\ isPlaying = FALSE
  /\ activeRequestRef = NULL
  /\ currentSourceRef = NULL
  /\ audioContextRef = "null"
  /\ requests = << >>
  /\ done = NoDone
  /\ OneDoc
  /\ isVoiceMode = TRUE
  /\ SpeechRecognition \in BOOLEAN
  /\ status = IF SpeechRecognition THEN "listening" ELSE "error"
  /\ transcriptRef = << >>
  /\ recognitionRef = IF SpeechRecognition THEN 1 ELSE NULL
  /\ voiceAudioContextRef \in {"running", "suspended"}
  /\ recognizers = IF SpeechRecognition THEN << NewRecognition >> ELSE << >>
  /\ queries = << >>
  /\ timers = << >>
  /\ NoPure

NextVoice ==
  \/ \E r \in DOMAIN recognizers : RecognitionStarted(r)
  \/ \E r \in DOMAIN recognizers, text \in FinalTranscripts :
        RecognitionResult(r, text)
  \/ \E r \in DOMAIN recognizers, e \in SpeechErrors : RecognitionError(r, e)
  \/ \E r \in DOMAIN recognizers : RecognitionEnded(r)
  \/ stopListening
  \/ startListening
  \/ \E k \in DOMAIN queries, reply \in ChatOutcomes : ChatSettled(k, reply)
  \/ \E k \in DOMAIN queries, audio \in BOOLEAN : SpeechSettled(k, audio)
  \/ \E k \in DOMAIN queries : PlaybackEnded(k)
  \/ \E k \in DOMAIN queries : PlaybackRejected(k)
  \/ TimePasses
  \/ \E j \in DOMAIN timers : TimerFired(j)
  \/ closeOverlay

SpecVoice == InitVoice /\ [][NextVoice]_vars

\* App renders <VoiceAgent> (isVoiceMode && chatInstance.current) and the
\* effect of the mount runs: startListening(), new AudioContext.  The
\* overlay is opened once.
VoiceAgentMounted(ctx) ==
  /\ ~isVoiceMode
  /\ processingState = "READY"
  /\ voiceAudioContextRef = "null"
  /\ ctx \in {"running", "suspended"}
  /\ isVoiceMode' = TRUE
  /\ voiceAudioContextRef' = ctx
  /\ transcriptRef' = << >>
  /\ IF SpeechRecognition
       THEN /\ recognizers' = Append(recognizers, NewRecognition)
            /\ recognitionRef' = Len(recognizers) + 1
            /\ status' = "listening"
       ELSE /\ status' = "error"
            /\ UNCHANGED << recognizers, recognitionRef >>
  /\ UNCHANGED << pipelineVars, pureVars, SpeechRecognition, queries, timers >>

\* A document is read aloud, the overlay is opened over it and one
\* conversation is held: no recognizer error, no button of the overlay but
\* the close button.
NextOverlay ==
  \/ \E m \in messages, ctx \in CtxOutcomes, t \in Clock :
        handlePlayMessage(m, ctx, t)
  \/ \E r \in DOMAIN requests, ok \in BOOLEAN : ResumeSettled(r, ok)
  \/ \E r \in DOMAIN requests, audio \in BOOLEAN : SynthResolved(r, audio)
  \/ \E r \in DOMAIN requests : PlayResolved(r)
  \/ \E r \in DOMAIN requests : SourceEnded(r)
  \/ handleFileSelect
  \/ \E ok \in BOOLEAN : ExtractSettled(ok)
  \/ \E ctx \in {"running", "suspended"} : VoiceAgentMounted(ctx)
  \/ \E r \in DOMAIN recognizers : RecognitionStarted(r)
  \/ \E r \in DOMAIN recognizers, text \in FinalTranscripts :
        RecognitionResult(r, text)
  \/ \E r \in DOMAIN recognizers : RecognitionEnded(r)
  \/ \E k \in DOMAIN queries, reply \in ChatOutcomes : ChatSettled(k, reply)
  \/ \E k \in DOMAIN queries, audio \in BOOLEAN : SpeechSettled(k, audio)
  \/ \E k \in DOMAIN queries : PlaybackEnded(k)
  \/ TimePasses
  \/ \E j \in DOMAIN timers : TimerFired(j)
  \/ closeOverlay

SpecOverlay == Init /\ [][NextOverlay]_vars

\* ============================================================ PCMDecoder
\* Bound: bytes of a payload
MaxBytes == 4

\* byte values that make the extreme and the sign-changing samples
ByteValues == { 0, 1, 127, 128, 255 }

Payloads == UNION { [1..n -> ByteValues] : n \in 0..MaxBytes }

\* dataView.getInt16(i * 2, true): signed, little endian (i counts from 0)
GetInt16(bytes, i) ==
  LET u == bytes[2 * i + 1] + 256 * bytes[2 * i + 2]
  IN IF u >= 32768 THEN u - 65536 ELSE u

\* every sample divided by 32768
Normalize_flat(int16) == << int16, 32768 >>

\* int16 < 0 ? int16 / 32768 : int16 / 32767, kept as << dividend, divisor >>
\* (Float32Array rounds the quotient to the nearest single-precision
\* value, which keeps the order and the quotients -1, 0 and 1)
Normalize(int16) ==
  IF int16 < 0 THEN << int16, 32768 >> ELSE << int16, 32767 >>

\* new Float32Array(bytes.length / 2) and the loop that fills it: the
\* constructor truncates a fractional length (ToIndex)
Float32Data(bytes) ==
  [i \in 1..(Len(bytes) \div 2) |-> Normalize(GetInt16(bytes, i - 1))]

\* createBuffer(1, length, 24000) throws NotSupportedError for length 0;
\* otherwise the source is started
StartSource(samples) == IF Len(samples) = 0 THEN "threw" ELSE "started"

Decoders == { "playChunk", "playPCMData" }

\* new Uint8Array(len) filled with binaryString.charCodeAt(i): an element
\* keeps the char code modulo 256
Uint8Array(binaryString) ==
  [i \in 1..Len(binaryString) |-> binaryString[i] % 256]

\* the rate playChunk hands to createBuffer
BufferRate == 24000

\* the decoder of the pipeline (App.tsx)
playChunk ==
  /\ subject = "playChunk"
  /\ source = "none"
  /\ float32Data' = Float32Data(Uint8Array(pcmData))
  /\ sampleRate' = BufferRate
  /\ source' = StartSource(float32Data')
  /\ UNCHANGED << pipelineVars, voiceVars, subject, pcmData, cleanText,
                  processedChunks >>

\* base64ToUint8Array of the service, after its atob
base64ToUint8Array(binaryString) ==
  [i \in 1..Len(binaryString) |-> binaryString[i] % 256]

\* the high byte read before the low one
PCMToFloat32_bigEndian(bytes) ==
  [i \in 1..(Len(bytes) \div 2) |->
     LET u == 256 * bytes[2 * i - 1] + bytes[2 * i]
         int16 == IF u >= 32768 THEN u - 65536 ELSE u
     IN IF int16 < 0 THEN << int16, 32768 >> ELSE << int16, 32767 >>]

\* "Convert 16-bit PCM to Float32" of playPCMData: pcmData.length / 2
\* samples (the length truncated), sample i from getInt16(i * 2, true),
\* divided by 32768 when negative and by 32767 otherwise
PCMToFloat32(bytes) ==
  [i \in 1..(Len(bytes) \div 2) |->
     LET u == bytes[2 * i - 1] + 256 * bytes[2 * i]
         int16 == IF u >= 32768 THEN u - 65536 ELSE u
     IN IF int16 < 0 THEN << int16, 32768 >> ELSE << int16, 32767 >>]

\* the default of playPCMData's parameter sampleRate
DefaultSampleRate == 24000

\* the rates a caller of playPCMData passes; VoiceAgent passes none
SampleRateArgs == { "undefined" }

\* the decoder of the voice loop (geminiService.ts)
playPCMData ==
  /\ subject = "playPCMData"
  /\ source = "none"
  /\ float32Data' = PCMToFloat32(base64ToUint8Array(pcmData))
  /\ \E arg \in SampleRateArgs :
        sampleRate' = IF arg = "undefined" THEN DefaultSampleRate ELSE arg
  /\ source' = StartSource(float32Data')
  /\ UNCHANGED << pipelineVars, voiceVars, subject, pcmData, cleanText,
                  processedChunks >>

\* one payload is handed to one of the decoders
InitDecoder ==
  /\ InitApp
  /\ VoiceClosed
  /\ subject \in Decoders
  /\ pcmData \in Payloads
  /\ float32Data = << >>
  /\ sampleRate = 0
  /\ source = "none"
  /\ cleanText = << >>
  /\ processedChunks = << >>

NextDecoder == playChunk \/ playPCMData

SpecDecoder == InitDecoder /\ [][NextDecoder]_vars

\* =========================================================== TextChunker
\* A text is a sequence of runs: n characters of one class.  "a" is any
\* character that is none of the others, " " white space, "." one of . ? !
\* and ")" one of ] ) ' "
\* Bound: runs of a text
MaxRuns == 6

Run(c, n) == [ c |-> c, n |-> n ]
Space == Run(" ", 1)
Runs == { Run("a", 1), Run("a", 399), Run("a", 497),
          Run(".", 1), Space, Run(")", 1) }

\* the texts .trim() can return
CleanTexts ==
  { t \in UNION { [1..n -> Runs] : n \in 0..MaxRuns } :
      t = << >> \/ (t[1].c # " " /\ t[Len(t)].c # " ") }

\* String.prototype.length
RECURSIVE TextLen(_)
TextLen(t) == IF t = << >> THEN 0 ELSE Head(t).n + TextLen(Tail(t))

Terminators == { "." }
Closers_none == { }
Closers == { ")" }
NonTerminators == { "a", " ", ")" }

\* the number of leading runs of t with a class in cs
RECURSIVE Lead(_, _)
Lead(t, cs) ==
  IF t = << >> \/ Head(t).c \notin cs THEN 0 ELSE 1 + Lead(Tail(t), cs)

Take(t, k) == SubSeq(t, 1, k)
Drop(t, k) == SubSeq(t, k + 1, Len(t))

\* cleanText.match(sentenceRegex): [^.?!]+[.?!]+[\])'"]*|[^.?!]+$ with the g
\* flag.  Where no alternative matches (at a terminator) the search moves
\* on by one character.
RECURSIVE Match(_)
Match(t) ==
  IF t = << >> THEN << >>
  ELSE IF Head(t).c \in Terminators THEN Match(Tail(t))
  ELSE LET a == Lead(t, NonTerminators)
           e == a + Lead(Drop(t, a), Terminators)
           f == e + Lead(Drop(t, e), Closers)
       IN IF a = Len(t) THEN << t >>
          ELSE << Take(t, f) >> \o Match(Drop(t, f))

\* cleanText.match(sentenceRegex) || [cleanText]
MatchSentences(t) == IF Match(t) = << >> THEN << t >> ELSE Match(t)

\* currentChunk.trim() is not empty
NonBlankText(t) == \E k \in DOMAIN t : t[k].c # " "

Fits_le(currentChunk, sentence) ==
  TextLen(currentChunk) + TextLen(sentence) <= ChunkLimit

Fits_never(currentChunk, sentence) == FALSE

\* (currentChunk + sentence).length < 500
Fits(currentChunk, sentence) ==
  TextLen(currentChunk) + TextLen(sentence) < ChunkLimit

\* the forEach over the sentences and the push after it
RECURSIVE PackText(_, _, _)
PackText(sentences, chunks, currentChunk) ==
  IF sentences = << >>
    THEN IF NonBlankText(currentChunk) THEN Append(chunks, currentChunk)
                                       ELSE chunks
    ELSE LET sentence == Head(sentences) IN
         IF Fits(currentChunk, sentence)
           THEN PackText(Tail(sentences), chunks,
                         currentChunk \o sentence \o << Space >>)
           ELSE PackText(Tail(sentences),
                         IF NonBlankText(currentChunk)
                           THEN Append(chunks, currentChunk) ELSE chunks,
                         sentence \o << Space >>)

\* the chunking of handlePlayMessage
chunkText ==
  /\ subject = "chunker"
  /\ processedChunks' = PackText(MatchSentences(cleanText), << >>, << >>)
  /\ subject' = "chunked"
  /\ UNCHANGED << pipelineVars, voiceVars, pcmData, float32Data,
                  sampleRate, source, cleanText >>

InitChunker ==
  /\ InitApp
  /\ VoiceClosed
  /\ subject = "chunker"
  /\ pcmData = << >>
  /\ float32Data = << >>
  /\ sampleRate = 0
  /\ source = "none"
  /\ cleanText \in CleanTexts
  /\ processedChunks = << >>

NextChunker == chunkText

SpecChunker == InitChunker /\ [][NextChunker]_vars

\* ------------------------------------------------------------------ Next
Next ==
  \/ \E m \in messages, ctx \in CtxOutcomes, t \in Clock :
        handlePlayMessage(m, ctx, t)
  \/ \E r \in DOMAIN requests, ok \in BOOLEAN : ResumeSettled(r, ok)
  \/ \E r \in DOMAIN requests, audio \in BOOLEAN : SynthResolved(r, audio)
  \/ \E r \in DOMAIN requests : PlayResolved(r)
  \/ \E r \in DOMAIN requests : SourceEnded(r)
  \/ resetApp
  \/ handleFileSelect
  \/ \E ok \in BOOLEAN : ExtractSettled(ok)
  \/ \E text \in ReplyTexts, t \in Clock : handleSendMessage(text, t)
  \/ \E doc \in { "current", "earlier" } : MetadataSettled(doc)

Spec == Init /\ [][Next]_vars

\* The Read Aloud buttons of one document: resetApp is never called.
NextPlayOnly ==
  \/ \E m \in messages, ctx \in CtxOutcomes, t \in Clock :
        handlePlayMessage(m, ctx, t)
  \/ \E r \in DOMAIN requests, ok \in BOOLEAN : ResumeSettled(r, ok)
  \/ \E r \in DOMAIN requests, audio \in BOOLEAN : SynthResolved(r, audio)
  \/ \E r \in DOMAIN requests : PlayResolved(r)
  \/ \E r \in DOMAIN requests : SourceEnded(r)
  \/ handleFileSelect
  \/ \E ok \in BOOLEAN : ExtractSettled(ok)
  \/ \E text \in ReplyTexts, t \in Clock : handleSendMessage(text, t)

SpecPlayOnly == Init /\ [][NextPlayOnly]_vars

\* The greeting of each uploaded document is read aloud: no question is
\* sent to the chat.
NextNoChat ==
  \/ \E m \in messages, ctx \in CtxOutcomes, t \in Clock :
        handlePlayMessage(m, ctx, t)
  \/ \E r \in DOMAIN requests, ok \in BOOLEAN : ResumeSettled(r, ok)
  \/ \E r \in DOMAIN requests, audio \in BOOLEAN : SynthResolved(r, audio)
  \/ \E r \in DOMAIN requests : PlayResolved(r)
  \/ \E r \in DOMAIN requests : SourceEnded(r)
  \/ resetApp
  \/ handleFileSelect
  \/ \E ok \in BOOLEAN : ExtractSettled(ok)

SpecNoChat == Init /\ [][NextNoChat]_vars

\* One document is loaded and one question has been answered with a reply of
\* two chunks: the Read Aloud buttons of the two messages and nothing else.
InitReadAloud ==
  /\ VoiceClosed
  /\ NoPure
  /\ now = 0
  /\ processingState = "READY"
  /\ extracting = 0
  /\ messages = { [id |-> SystemMsgId, text |-> GreetingText],
                  [id |-> 1, text |-> << 400, 400 >>] }
  /\ playingMessageId = NULL
  /\ loadingMessageId = NULL
  /\ isPlaying = FALSE
  /\ activeRequestRef = NULL
  /\ currentSourceRef = NULL
  /\ audioContextRef = "null"
  /\ requests = << >>
  /\ done = NoDone
  /\ OneDoc

NextReadAloud ==
  \/ \E m \in messages, ctx \in CtxOutcomes, t \in Clock :
        handlePlayMessage(m, ctx, t)
  \/ \E r \in DOMAIN requests, ok \in BOOLEAN : ResumeSettled(r, ok)
  \/ \E r \in DOMAIN requests, audio \in BOOLEAN : SynthResolved(r, audio)
  \/ \E r \in DOMAIN requests : PlayResolved(r)
  \/ \E r \in DOMAIN requests : SourceEnded(r)

SpecReadAloud == InitReadAloud /\ [][NextReadAloud]_vars

\* ================================================================ claims
\* this step is a continuation of request a after one of its awaits
Stepped(a) ==
  \/ \E ok \in BOOLEAN : ResumeSettled(a, ok)
  \/ \E audio \in BOOLEAN : SynthResolved(a, audio)
  \/ PlayResolved(a)

\* this step is an invocation of handlePlayMessage for message m
Invoked(m) ==
  \E ctx \in CtxOutcomes, t \in Clock : handlePlayMessage(m, ctx, t)

\* C1 (as claimed): once handlePlayMessage(B) has been invoked while an
\* earlier request A for another message was still loading or playing, no
\* step of A writes playingMessageId / loadingMessageId / isPlaying or
\* starts an audio source.
C1_CancellationCorrectness ==
  [][ \A a \in DOMAIN requests :
        (requests[a].superseded /\ Stepped(a))
          => /\ statusVars' = statusVars
             /\ Cardinality(Rendering') <= Cardinality(Rendering) ]_vars

\* C2 (as claimed): at no time are two sources started by the pipeline
\* both rendering on the output device.
C2_ExclusivePlayback == Cardinality(Rendering) <= 1

\* C3 (as claimed): the token of an invocation is greater than the token of
\* the invocation before it, and no request that a newer invocation has
\* followed holds the token equal to activeRequestRef.current.
C3_FreshToken ==
  [][ /\ \A m \in messages :
           Invoked(m) => activeRequestRef' > activeRequestRef
      /\ \A a \in DOMAIN requests' :
           requests'[a].newer => requests'[a].requestId # activeRequestRef'
    ]_vars

\* C4 (as claimed): a request with n >= 1 chunks that starts from idle, is
\* never stopped or superseded and whose synthesis calls all return audio
\* has, when it finishes, synthesized and played every chunk 0..n-1.
C4_FullPlayback ==
  (/\ done.kind = "play" /\ done.pc = "done" /\ done.clean
   /\ done.n >= 1 /\ done.failed = {})
    => /\ done.synth = 0..(done.n - 1)
       /\ done.played = 0..(done.n - 1)

\* C5 (as claimed): a handlePlayMessage(M) invocation that finds M's own
\* request fetching a chunk or playing is a stop request: the current
\* source is halted, the token of that request is no longer the active one,
\* the status becomes idle and no new pipeline is started.
C5_ToggleSemantics ==
  [][ \A m \in messages :
        (Invoked(m) /\ OwnLive(m.id))
          => /\ IsToggle(m.id)
             /\ Rendering' = {}
             /\ \A a \in DOMAIN requests :
                   requests[a].msgId = m.id
                     => requests[a].requestId # activeRequestRef'
             /\ statusVars' = Idle
             /\ Len(requests') <= Len(requests) ]_vars

Outcome(d) == << d.result, d.exit >>

\* the invocation started from idle, nothing interfered with it and every
\* one of its chunks was played
PlayedOut(d) ==
  /\ d.kind = "play" /\ d.clean
  /\ d.n >= 1 /\ d.failed = {} /\ d.played = 0..(d.n - 1)

\* the invocation started from idle, nothing interfered with it and one of
\* its synthesis calls gave no audio
FailedOut(d) == d.kind = "play" /\ d.clean /\ d.failed # {}

\* C8 (as claimed): a request whose chunks all played to completion ends
\* with its promise fulfilled and the status idle, and a request in which
\* a synthesis call failed ends with an outcome that differs from that.
C8_FailureSurfaced ==
  /\ PlayedOut(done) => Outcome(done) = << "fulfilled", Idle >>
  /\ FailedOut(done) => Outcome(done) # << "fulfilled", Idle >>

\* C9 (as claimed): an invocation whose cleaned text is empty has zero
\* chunks, issues no synthesize call, raises no error and leaves the status
\* idle when it finishes.
C9_IdleOnEmptyInput ==
  /\ Len(ProcessedChunks(<< >>)) = 0
  /\ (done.kind # "none" /\ done.n = 0)
       => /\ done.synth = {}
          /\ done.result = "fulfilled"
          /\ done.exit = Idle

\* C10 (as claimed): a request that ended because creating or resuming the
\* AudioContext failed leaves the status idle.
C10_DeviceFailureConfined ==
  done.pc = "threw" => done.exit = Idle

\* C11: a source halted by stop() (toggle, superseding request or resetApp)
\* has its `ended` event queued, and every request that awaits playChunk on
\* a source that no longer renders can take its next step: the promise of
\* playChunk resolves, so no request waits forever on a stopped source.
C11_NoHangOnStop ==
  /\ [](\A r \in DOMAIN requests :
          requests[r].pc = "play" /\ requests[r].srcSt # "rendering"
            => ENABLED PlayResolved(r))
  /\ [][ ((\E m \in messages : Invoked(m)) \/ resetApp)
           => \A r \in DOMAIN requests :
                 (r = currentSourceRef /\ requests[r].srcSt = "rendering")
                   => /\ requests'[r].pc = "play"
                      /\ requests'[r].srcSt = "ended" ]_vars

\* the toggle click has just stopped the source of a request that awaits
\* playChunk
C11_Witness ==
  /\ done.kind = "toggle"
  /\ \E r \in DOMAIN requests :
        /\ requests[r].stopped
        /\ requests[r].pc = "play"
        /\ requests[r].srcSt = "ended"

C13_RecognizerIffListening ==
  isVoiceMode =>
    /\ (\E r \in DOMAIN recognizers : recognizers[r].st = "listening")
          => status = "listening"
    /\ status = "listening" => recognizers # << >>

\* C14 (as claimed): once the overlay is closed no recognizer is started or
\* listens (the one that was stopped may still be on its way to its `end`
\* event) and no reply is rendered.
C14_CloseTearsDown ==
  ~isVoiceMode =>
    /\ \A r \in DOMAIN recognizers :
          recognizers[r].st \notin {"starting", "listening"}
    /\ Speaking = {}

\* C15 (as claimed): a fatal error reported by a recognizer while the status
\* is 'listening' moves the status to 'error'; a 'no-speech' error leaves
\* the status as it is.
C15_FatalRecognizerError ==
  [][ \A r \in DOMAIN recognizers :
        /\ (RecognitionError(r, "not-allowed") /\ isVoiceMode
              /\ status = "listening"
              /\ recognizers'[r].error = "not-allowed")
             => status' = "error"
        /\ (RecognitionError(r, "no-speech")
              /\ recognizers'[r].error = "no-speech")
             => status' = status ]_vars

\* C16 (as claimed): when the session of a recognizer of the open overlay
\* ends, in status 'listening', after
\* a 'no-speech' error or without a final transcript that has speech in it
\* (none, empty or white space only), the status stays 'listening', no
\* handleUserQuery is started and the recognizer is started again.
C16_BlankSessionRestarts ==
  [][ \A r \in DOMAIN recognizers :
        (/\ RecognitionEnded(r)
         /\ isVoiceMode
         /\ status = "listening"
         /\ ~HasSpeech(recognizers[r].final))
          => /\ status' = "listening"
             /\ queries' = queries
             /\ Len(recognizers') = Len(recognizers)
             /\ recognizers'[r].st = "starting" ]_vars

\* C17: when chat.sendMessage fails in status 'processing' the status
\* becomes 'error' and a timer is armed; the timer runs its callback only
\* when RecoveryDelay time units have passed, the callback starts a
\* recognizer without any button being pressed, and the `start` event of a
\* recognizer sets the status to 'listening'.
C17_ErrorRecovery ==
  [][ /\ \A k \in DOMAIN queries :
           (ChatSettled(k, "rejects") /\ Len(queries') < Len(queries)
              /\ isVoiceMode /\ status = "processing")
             => /\ status' = "error"
                /\ timers' = Append(timers, 0)
      /\ \A j \in DOMAIN timers :
           TimerFired(j)
             => /\ timers[j] = RecoveryDelay
                /\ recognizers' = Append(recognizers, NewRecognition)
                /\ recognitionRef' = Len(recognizers')
      /\ \A r \in DOMAIN recognizers :
           (RecognitionStarted(r) /\ isVoiceMode) => status' = "listening"
    ]_vars

\* the chat call of the only turn has failed, the delay has passed and the
\* timer has started a recognizer
C17_Witness ==
  /\ isVoiceMode
  /\ status = "error"
  /\ timers = << >>
  /\ queries = << >>
  /\ recognizers = << NewRecognition >>

\* C18 (as claimed): when chat.sendMessage resolves without text in status
\* 'processing', the status becomes 'error' and the query does not go on to
\* the synthesis.
C18_EmptyReplyIsError ==
  [][ \A k \in DOMAIN queries :
        (ChatSettled(k, "empty") /\ isVoiceMode /\ status = "processing")
          => /\ status' = "error"
             /\ \A a \in DOMAIN queries' :
                   ~(queries'[a].pc = "synth" /\ queries'[a].reply = "empty")
    ]_vars

\* C19: when generateSpeechFromText yields no audio in status
\* 'synthesizing', the query ends in that step without the status being
\* written (neither 'speaking' nor 'error'), no timer is armed and a
\* recognizer is started.
C19_NoAudioBackToListening ==
  [][ \A k \in DOMAIN queries :
        (SpeechSettled(k, FALSE) /\ Len(queries') < Len(queries)
           /\ isVoiceMode /\ status = "synthesizing")
          => /\ status' = "synthesizing"
             /\ timers' = timers
             /\ recognizers' = Append(recognizers, NewRecognition)
             /\ recognitionRef' = Len(recognizers')
    ]_vars

\* the synthesis of the only turn has yielded no audio and a recognizer has
\* been started
C19_Witness ==
  /\ isVoiceMode
  /\ status = "synthesizing"
  /\ timers = << >>
  /\ queries = << >>
  /\ recognizers = << NewRecognition >>

\* C20 (as claimed): while the overlay is open, has status 'speaking' and a
\* reply is being played, a step either is the end of that playback or
\* leaves the status 'speaking' and the recognizers as they are.
C20_SpeakingUntilPlayed ==
  [][ (/\ isVoiceMode /\ isVoiceMode'
       /\ status = "speaking"
       /\ \E k \in DOMAIN queries : queries[k].pc = "play")
        => \/ \E k \in DOMAIN queries : PlaybackEnded(k)
           \/ (status' = "speaking" /\ recognizers' = recognizers) ]_vars

\* C21 (as claimed): whenever the open overlay has status 'error' its return
\* to 'listening' is under way without a button: a recovery timer is pending
\* or a recognizer has been started.
C21_EveryErrorRecovers ==
  (isVoiceMode /\ status = "error")
    => (timers # << >> \/ recognizers # << >>)

\* C22 (as claimed): a payload with an odd number of bytes makes either
\* decoder fail: no sample is produced from it and no source is started.
C22_OddLengthFails ==
  (source # "none" /\ Len(pcmData) % 2 = 1)
    => (source = "threw" /\ float32Data = << >>)

\* C23: for a payload with an even number n of bytes either decoder makes
\* n/2 samples; sample k is v / 32768 when v < 0 and v / 32767 otherwise,
\* where v is the 16-bit two's complement value of byte 2k (low) and byte
\* 2k+1 (high); every sample is in [-1, 1], -32768 gives -1 and 32767
\* gives 1.
C23_DecoderContract ==
  (source # "none" /\ Len(pcmData) % 2 = 0)
    => /\ 2 * Len(float32Data) = Len(pcmData)
       /\ \A k \in DOMAIN float32Data :
             LET v == float32Data[k][1]
                 d == float32Data[k][2]
                 lo == pcmData[2 * k - 1]
                 hi == pcmData[2 * k]
             IN /\ v \in (0 - 32768)..32767
                /\ (v - (lo + 256 * hi)) % 65536 = 0
                /\ d = IF v < 0 THEN 32768 ELSE 32767
                /\ 0 - d <= v /\ v <= d
                /\ (v = 0 - 32768) => (v = 0 - d)
                /\ (v = 32767) => (v = d)

\* both extreme samples have been decoded
C23_Witness ==
  /\ source = "started"
  /\ pcmData = << 0, 128, 255, 127 >>
  /\ float32Data = << << 0 - 32768, 32768 >>, << 32767, 32767 >> >>

\* C39: the two PCM decoders are equivalent: for every payload the decoder
\* that ran has made the sample sequence, the sample rate (24000) and the
\* outcome the other decoder makes of the same payload.
C39_DecodersEquivalent ==
  /\ (subject = "playChunk" /\ source # "none")
       => /\ float32Data = PCMToFloat32(base64ToUint8Array(pcmData))
          /\ sampleRate = DefaultSampleRate
          /\ sampleRate = 24000
  /\ (subject = "playPCMData" /\ source # "none")
       => /\ float32Data = Float32Data(Uint8Array(pcmData))
          /\ sampleRate = BufferRate
          /\ sampleRate = 24000

\* the voice decoder has played a payload with a negative and a positive
\* sample whose bytes differ
C39_Witness ==
  /\ subject = "playPCMData"
  /\ source = "started"
  /\ pcmData = << 1, 128, 0, 127 >>
  /\ float32Data = << << 1 - 32768, 32768 >>, << 32512, 32767 >> >>
  /\ sampleRate = 24000


\* ------------------------------------------------------ chunker claims
\* the chunks one after the other
RECURSIVE Flatten(_)
Flatten(chunks) ==
  IF chunks = << >> THEN << >> ELSE Head(chunks) \o Flatten(Tail(chunks))

\* a text without its white space, as (class, count) runs that are maximal
RECURSIVE Canon(_)
Canon(t) ==
  IF t = << >> THEN << >>
  ELSE LET rest == Canon(Tail(t)) IN
       IF Head(t).c = " " THEN rest
       ELSE IF rest # << >> /\ Head(rest).c = Head(t).c
         THEN << Run(Head(t).c, Head(t).n + Head(rest).n) >> \o Tail(rest)
         ELSE << Head(t) >> \o rest

\* C24: the chunks, concatenated in order, are the cleaned text up to white
\* space: no other character is lost, added or duplicated, leading or
\* repeated terminal punctuation and an unterminated last fragment included.
C24_ChunkCoverage ==
  subject = "chunked" => Canon(Flatten(processedChunks)) = Canon(cleanText)

\* the chunk is one sentence, and the sentence has min characters or more
SingleSentence(chunk, min) ==
  \E k \in DOMAIN MatchSentences(cleanText) :
    /\ chunk = MatchSentences(cleanText)[k] \o << Space >>
    /\ TextLen(MatchSentences(cleanText)[k]) >= min

\* C25: a chunk is at most 500 characters long unless it is a single
\* sentence that is itself longer than 500: two sentences or more never
\* exceed the bound, and a sentence of at most 500 characters never makes a
\* chunk longer than 500.
C25_ChunkBound ==
  subject = "chunked" =>
    \A j \in DOMAIN processedChunks :
      \/ TextLen(processedChunks[j]) <= ChunkLimit
      \/ SingleSentence(processedChunks[j], ChunkLimit + 1)

\* C25, amended: a chunk is at most 500 characters long unless it is a
\* single sentence of 500 characters or more, the chunk then being the
\* sentence and its separator space.
C25_ChunkBoundAmended ==
  subject = "chunked" =>
    \A j \in DOMAIN processedChunks :
      \/ TextLen(processedChunks[j]) <= ChunkLimit
      \/ SingleSentence(processedChunks[j], ChunkLimit)

\* a sentence of exactly 500 characters is in a chunk of 501, next to
\* another chunk
C25_Witness ==
  /\ subject = "chunked"
  /\ \E j \in DOMAIN processedChunks :
       /\ TextLen(processedChunks[j]) = ChunkLimit + 1
       /\ SingleSentence(processedChunks[j], ChunkLimit)
  /\ Len(processedChunks) >= 2

\* the first n of the sentences S as the loop joins them
RECURSIVE Join(_, _)
Join(S, n) ==
  IF n = 0 THEN << >> ELSE Head(S) \o << Space >> \o Join(Tail(S), n - 1)

\* s is a run of non-terminators, then terminators, then closing
\* characters; or, where last holds, a run of non-terminators only
IsSentence(s, last) ==
  LET a == Lead(s, { "a", " ", ")" })
      e == a + Lead(Drop(s, a), { "." })
      f == e + Lead(Drop(s, e), { ")" })
  IN /\ a >= 1
     /\ \/ e > a /\ f = Len(s)
        \/ last /\ a = Len(s)

\* the sentence s ends where its terminators and closing characters end
EndsAt(s, rest) ==
  \/ rest = << >>
  \/ /\ Head(rest).c # ")"
     /\ s[Len(s)].c = "." => Head(rest).c # "."

\* S are the sentences of the text t, in their order: each is a sentence
\* that ends where it should, and only terminators lie between them
RECURSIVE Parsed(_, _)
Parsed(t, S) ==
  LET u == Drop(t, Lead(t, { "." })) IN
  IF S = << >> THEN u = << >>
  ELSE LET s == Head(S) IN
       /\ Len(s) <= Len(u)
       /\ Take(u, Len(s)) = s
       /\ IsSentence(s, Len(s) = Len(u))
       /\ EndsAt(s, Drop(u, Len(s)))
       /\ Parsed(Drop(u, Len(s)), Tail(S))

\* the chunks are the sentences S, each once and in order, none divided
RECURSIVE Aligned(_, _)
Aligned(chunks, S) ==
  IF chunks = << >> THEN S = << >>
  ELSE \E n \in 1..Len(S) :
         /\ Head(chunks) = Join(S, n)
         /\ Aligned(Tail(chunks), Drop(S, n))

\* C26: every chunk is one or more whole consecutive sentences, a sentence
\* being non-terminators followed by terminators and closing characters, or
\* the last unterminated fragment; the sentences are in the chunks in their
\* order, each once, and none is divided, an over-length one neither.
C26_SentenceAlignment ==
  subject = "chunked" =>
    /\ Parsed(cleanText, Match(cleanText))
    /\ Aligned(processedChunks, Match(cleanText))

\* C26, amended: the same, a text of terminators only being one chunk of its
\* own although it holds no sentence.
C26_SentenceAlignmentAmended ==
  subject = "chunked" =>
    IF cleanText # << >> /\ Lead(cleanText, { "." }) = Len(cleanText)
      THEN processedChunks = << cleanText \o << Space >> >>
      ELSE /\ Parsed(cleanText, Match(cleanText))
           /\ Aligned(processedChunks, Match(cleanText))

\* an over-length sentence is a chunk of its own, whole, next to another
\* chunk
C26_Witness ==
  /\ subject = "chunked"
  /\ Len(processedChunks) >= 2
  /\ \E j \in DOMAIN processedChunks :
       SingleSentence(processedChunks[j], ChunkLimit + 1)

\* each chunk takes the sentences of S that fit, and ends at the first one
\* that does not
RECURSIVE Greedy(_, _)
Greedy(chunks, S) ==
  IF chunks = << >> THEN S = << >>
  ELSE \E n \in 1..Len(S) :
         /\ Head(chunks) = Join(S, n)
         /\ \A k \in 2..n :
              TextLen(Join(S, k - 1)) + TextLen(S[k]) < ChunkLimit
         /\ n < Len(S) =>
              TextLen(Join(S, n)) + TextLen(S[n + 1]) >= ChunkLimit
         /\ Greedy(Tail(chunks), Drop(S, n))

\* C27: a sentence joins the current chunk exactly when the chunk's length,
\* separator spaces included, plus the sentence's length is below 500;
\* otherwise the current chunk is emitted and the sentence starts the next
\* one.  No emitted chunk is empty or white space only.
C27_GreedyPacking ==
  subject = "chunked" =>
    /\ \A j \in DOMAIN processedChunks : NonBlankText(processedChunks[j])
    /\ IF cleanText = << >> THEN processedChunks = << >>
         ELSE Greedy(processedChunks, MatchSentences(cleanText))

\* three sentences of 400 characters have become three chunks
C27_Witness ==
  /\ subject = "chunked"
  /\ cleanText = << Run("a", 399), Run(".", 1), Run("a", 399), Run(".", 1),
                    Run("a", 399), Run(".", 1) >>
  /\ Len(processedChunks) = 3

ExposedStatus(id) ==
  IF loadingMessageId = id THEN "loading"
  ELSE IF playingMessageId = id THEN "playing"
  ELSE "idle"

\* C29: while the synthesis of a chunk of the current request is pending,
\* of whatever index, the status of its message is loading; while that
\* chunk plays, it is playing.
C29_LoadingForEveryFetch ==
  \A a \in DOMAIN requests :
     requests[a].requestId = activeRequestRef
       => /\ requests[a].pc = "synth"
               => ExposedStatus(requests[a].msgId) = "loading"
          /\ (requests[a].pc = "play" /\ requests[a].srcSt = "rendering")
               => ExposedStatus(requests[a].msgId) = "playing"

\* ------------------------------------------------------ voice loop claims
\* C30: the voice loop goes from listening to processing only on a final
\* transcript whose trimmed text is not empty: a recognizer session causes a
\* chat request only with a final transcript of its own, and the request
\* carries that transcript.
C30_OnlyOwnFinalTranscript ==
  [][ /\ \A r \in DOMAIN recognizers :
           (RecognitionEnded(r) /\ Len(queries') > Len(queries))
             => /\ HasSpeech(recognizers[r].final)
                /\ transcriptRef = recognizers[r].final
      /\ (status = "listening" /\ status' = "processing")
           => \E r \in DOMAIN recognizers :
                 RecognitionEnded(r) /\ HasSpeech(recognizers[r].final)
    ]_vars

\* C31: the status of the voice loop changes along the specified edges
\* only: to processing from listening, to synthesizing from processing, to
\* speaking from synthesizing, and to listening from speaking, from
\* synthesizing or from error, whatever the user does with the buttons.
C31_StatusEdges ==
  [][ (isVoiceMode /\ status' # status)
        => /\ status' = "processing" => status = "listening"
           /\ status' = "synthesizing" => status = "processing"
           /\ status' = "speaking" => status = "synthesizing"
           /\ status' = "listening"
                => status \in { "speaking", "synthesizing", "error" }
    ]_vars

\* C32: the status variables of the pipeline agree in every state: loading
\* and playing never hold together, a loading message is the playing
\* message, and isPlaying implies that there is a playing message.
C32_StatusConsistent ==
  /\ ~(loadingMessageId # NULL /\ isPlaying)
  /\ loadingMessageId # NULL => loadingMessageId = playingMessageId
  /\ isPlaying => playingMessageId # NULL

\* C33: a request that was loading or playing when resetApp ran starts no
\* further audio source and takes the status variables away from idle no
\* more.  (The message list is empty from resetApp to the next document:
\* a request that runs then was started before resetApp.)
C33_ResetCancels ==
  [][ \A a \in DOMAIN requests :
        (messages = {} /\ Stepped(a))
          => /\ statusVars = Idle => statusVars' = Idle
             /\ Rendering' \subseteq Rendering ]_vars

\* C34: whenever a chunk of the current request is rendered on the device,
\* the status is playing for the message of that request: isPlaying holds,
\* playingMessageId is the message and loadingMessageId is null.
C34_PlayingWhileRendering ==
  \A a \in Rendering :
     requests[a].requestId = activeRequestRef
       => statusVars = << requests[a].msgId, NULL, TRUE >>

\* the recognizers between start() and the end of their session
ActiveRecognizers ==
  { r \in DOMAIN recognizers : recognizers[r].st \in { "starting", "listening" } }

\* C35: in the voice overlay at most one recognizer is active at any time,
\* whoever calls startListening.
C35_OneRecognizer == isVoiceMode => Cardinality(ActiveRecognizers) <= 1

\* C36: in the voice loop at most one conversation turn (chat call,
\* synthesis, playback) is in flight at any time, and so no two replies are
\* rendered together.
C36_OneTurnInFlight ==
  isVoiceMode => (Len(queries) <= 1 /\ Cardinality(Speaking) <= 1)

\* C37: after "Stop Listening", with no final transcript captured, the end
\* event of the stopped recognizer does not start it again: no recognizer
\* is active that was not active before the event.
C37_StopStaysStopped ==
  [][ \A r \in DOMAIN recognizers :
        (/\ RecognitionEnded(r)
         /\ isVoiceMode
         /\ recognizers[r].st = "stopping"
         /\ ~HasSpeech(transcriptRef))
          => Cardinality(ActiveRecognizers') <= Cardinality(ActiveRecognizers)
    ]_vars

\* C38: the stats shown are those of the current document: the result of a
\* metadata analysis started for a document that has been reset or
\* replaced since is never put into stats.
C38_StatsOfCurrentDocument == stats # "earlier"

====
